---- MODULE Spec2Model ----
(***************************************************************************)
(* IRFStacker (gammapy/irf/irf_stack.py): exposure-weighted stacking of    *)
(* effective-area curves and energy-dispersion matrices.                   *)
(*                                                                         *)
(* A float is a triple <<kind, n, d>>:                                     *)
(*   <<"fin", n, d>>  the finite value n/d (d > 0, lowest terms)           *)
(*   <<"nan", 0, 1>>  NaN                                                  *)
(*   <<"inf", s, 1>>  +Inf (s = 1) or -Inf (s = -1)                        *)
(*   <<"max", s, 1>>  +/- the largest finite float, which only             *)
(*                    numpy.nan_to_num produces (from +/-Inf)              *)
(* Finite arithmetic is exact (rationals); rounding is not modelled.       *)
(* A 1-D array is a sequence of floats, a 2-D array a sequence of rows.    *)
(* An attribute that is None or an object is a sequence of length 0 or 1.  *)
(***************************************************************************)
EXTENDS Integers, Sequences, FiniteSets, TLC

\* ---------------------------------------------------------------- bounds
MaxObs == 2
MaxTrue == 2
MaxReco == 2

\* ---------------------------------------------------------------- floats
Abs(n) == IF n < 0 THEN -n ELSE n

Sign(n) == IF n < 0 THEN -1 ELSE IF n = 0 THEN 0 ELSE 1

RECURSIVE GCD(_, _)
GCD(a, b) == IF b = 0 THEN a ELSE GCD(b, a % b)

\* the finite float n/d, d # 0, in lowest terms with a positive denominator
Fin(n, d) ==
    LET g == GCD(Abs(n), Abs(d))
    IN  <<"fin", Sign(d) * (n \div g), Abs(d) \div g>>

F(n) == <<"fin", n, 1>>

Zero == <<"fin", 0, 1>>

NaN == <<"nan", 0, 1>>

Inf(s) == <<"inf", s, 1>>

IsNaN(x) == x[1] = "nan"

IsFin(x) == x[1] = "fin"

\* x * y (IEEE 754: NaN propagates, Inf * 0 is NaN)
FMul(x, y) ==
    IF IsNaN(x) \/ IsNaN(y) THEN NaN
    ELSE IF IsFin(x) /\ IsFin(y) THEN Fin(x[2] * y[2], x[3] * y[3])
    ELSE IF Sign(x[2]) * Sign(y[2]) = 0 THEN NaN
    ELSE Inf(Sign(x[2]) * Sign(y[2]))

\* x + y (IEEE 754: NaN propagates, Inf + -Inf is NaN)
FAdd(x, y) ==
    IF IsNaN(x) \/ IsNaN(y) THEN NaN
    ELSE IF IsFin(x) /\ IsFin(y)
         THEN Fin(x[2] * y[3] + y[2] * x[3], x[3] * y[3])
    ELSE IF IsFin(x) THEN y
    ELSE IF IsFin(y) THEN x
    ELSE IF x[2] = y[2] THEN x
    ELSE NaN

\* x / y as numpy divides floats: 0/0 is NaN and x/0 is +/-Inf (a warning,
\* no exception)
FDiv(x, y) ==
    IF IsNaN(x) \/ IsNaN(y) THEN NaN
    ELSE IF IsFin(x) /\ IsFin(y)
         THEN IF y[2] = 0
              THEN IF x[2] = 0 THEN NaN ELSE Inf(Sign(x[2]))
              ELSE Fin(x[2] * y[3], x[3] * y[2])
    ELSE IF IsFin(x) THEN Zero
    ELSE IF IsFin(y) THEN Inf(x[2] * (IF y[2] < 0 THEN -1 ELSE 1))
    ELSE NaN

\* numpy.nan_to_num on one element: NaN -> 0, +/-Inf -> +/- largest float
nan_to_num(x) ==
    IF IsNaN(x) THEN Zero
    ELSE IF x[1] = "inf" THEN <<"max", x[2], 1>>
    ELSE x

\* ---------------------------------------------------------------- arrays
\* numpy.zeros(n)
zeros(n) == [i \in 1..n |-> Zero]

\* numpy.zeros(shape=(r, c))
zeros2(r, c) == [i \in 1..r |-> zeros(c)]

\* the result of an array operation that can raise: the array, or nothing
Ok(a) == [raised |-> "", val |-> a]

Raise(e) == [raised |-> e, val |-> <<>>]

\* a 1-D array times a scalar
Scale(a, s) == [i \in 1..Len(a) |-> FMul(a[i], s)]

\* numpy.sum of a 1-D array
RECURSIVE np_sum(_)
np_sum(a) == IF Len(a) = 0 THEN Zero ELSE FAdd(np_sum(SubSeq(a, 1, Len(a) - 1)), a[Len(a)])

\* a += b for 1-D arrays: b is broadcast to a's shape (equal length, or
\* length 1); anything else raises ValueError
iadd(a, b) ==
    IF Len(b) = Len(a) \/ Len(b) = 1
    THEN Ok([i \in 1..Len(a) |-> FAdd(a[i], b[IF Len(b) = 1 THEN 1 ELSE i])])
    ELSE Raise("ValueError")

\* a / b for 1-D a and a scalar b
div_scalar(a, b) == [i \in 1..Len(a) |-> FDiv(a[i], b)]

\* ------------------------------------------------------------ IRF objects
\* an energy axis of n bins: its n + 1 edges
Edges(n) == [i \in 1..(n + 1) |-> i - 1]

\* axis.nbins
nbins(axis) == Len(axis) - 1

\* EffectiveAreaTable(energy=..., data=...)
EffectiveAreaTable(energy, data) == [energy |-> energy, data |-> data]

\* EffectiveAreaTable.evaluate(fill_nan=...): the curve's values, NaN
\* replaced by 0 when fill_nan
evaluate(arf, fill_nan) ==
    [l \in 1..Len(arf.data) |->
        IF fill_nan /\ IsNaN(arf.data[l]) THEN Zero ELSE arf.data[l]]

\* ------------------------------------------------------------- stack_aeff
\* aeff_data as it would be without fill_nan
aeff_data_unfilled(arf) == evaluate(arf, FALSE)

\* line 75: aeff_data = arf.evaluate(fill_nan=True)
aeff_data(arf) == evaluate(arf, TRUE)

\* livetime_tot as the number of observations: the plain mean of the curves
livetime_count(livetimes) == F(Len(livetimes))

\* line 72: livetime_tot = np.sum(self.list_livetime)
livetime_tot(livetimes) == np_sum(livetimes)

\* lines 74-77, from observation i on: the accumulated aefft, or the
\* exception the in-place addition raises
RECURSIVE aeff_loop(_, _, _, _)
aeff_loop(arfs, livetimes, i, aefft) ==
    IF i > Len(arfs) THEN Ok(aefft)
    ELSE IF i > Len(livetimes) THEN Raise("IndexError")
    ELSE LET aefft_current == Scale(aeff_data(arfs[i]), livetimes[i])
             sum == iadd(aefft, aefft_current)
         IN  IF sum.raised # "" THEN sum
             ELSE aeff_loop(arfs, livetimes, i + 1, sum.val)

\* stack_aeff's body: the exception it raises, or the table it stores
StackAeff(arfs, livetimes) ==
    IF Len(arfs) = 0 THEN Raise("IndexError")
    ELSE LET n == nbins(arfs[1].energy)
             run == aeff_loop(arfs, livetimes, 1, zeros(n))
         IN  IF run.raised # "" THEN run
             ELSE Ok(EffectiveAreaTable(arfs[1].energy,
                                        div_scalar(run.val, livetime_tot(livetimes))))

\* --------------------------------------------------------------- mean_rmf
\* EnergyDispersion(e_true=..., e_reco=..., data=...): data[l][k] for true
\* bin l and reco bin k
EnergyDispersion(e_true, e_reco, data) ==
    [e_true |-> e_true, e_reco |-> e_reco, data |-> data]

\* whether reco bin k of the axis lies inside [lo, hi]
in_safe_range(e_reco, k, lo, hi) == lo <= e_reco[k] /\ e_reco[k + 1] <= hi

\* EnergyDispersion.pdf_in_safe_range(lo, hi): the matrix (true x reco) with
\* the reco bins outside the thresholds set to 0
pdf_in_safe_range(rmf, lo, hi) ==
    [l \in 1..Len(rmf.data) |->
        [k \in 1..Len(rmf.data[l]) |->
            IF in_safe_range(rmf.e_reco, k, lo, hi) THEN rmf.data[l][k] ELSE Zero]]

\* ndarray.transpose() of a 2-D array
transpose(m) == [j \in 1..Len(m[1]) |-> [i \in 1..Len(m) |-> m[i][j]]]

\* m * v for a 2-D m (r x c) and a 1-D v (n): v is broadcast along the rows,
\* which needs c = n, c = 1 or n = 1
mul_rows(m, v) ==
    LET c == Len(m[1])
        n == Len(v)
        w == IF c > n THEN c ELSE n
    IN  IF c = n \/ c = 1 \/ n = 1
        THEN Ok([i \in 1..Len(m) |->
                 [j \in 1..w |-> FMul(m[i][IF c = 1 THEN 1 ELSE j],
                                      v[IF n = 1 THEN 1 ELSE j])]])
        ELSE Raise("ValueError")

\* a += b for 2-D arrays: b is broadcast to a's shape (each of its axes
\* equal to a's, or of length 1); anything else raises ValueError
iadd2(a, b) ==
    LET ra == Len(a)
        ca == Len(a[1])
        rb == Len(b)
        cb == Len(b[1])
    IN  IF (rb = ra \/ rb = 1) /\ (cb = ca \/ cb = 1)
        THEN Ok([i \in 1..ra |->
                 [j \in 1..ca |-> FAdd(a[i][j], b[IF rb = 1 THEN 1 ELSE i]
                                                 [IF cb = 1 THEN 1 ELSE j])]])
        ELSE Raise("ValueError")

\* line 103: numpy.nan_to_num(aefftedisp / aefft), the 1-D aefft broadcast
\* along the rows of aefftedisp
div_rows(aefftedisp, aefft) ==
    [k \in 1..Len(aefftedisp) |->
        [l \in 1..Len(aefftedisp[k]) |->
            nan_to_num(FDiv(aefftedisp[k][l], aefft[l]))]]

\* edisp_data without the thresholds
edisp_data_unmasked(rmf, lo, hi) == rmf.data

\* lines 98-99: edisp_data = rmf.pdf_in_safe_range(low, high)
edisp_data(rmf, lo, hi) == pdf_in_safe_range(rmf, lo, hi)

\* lines 94-101, from observation i on: the accumulated aefft and aefftedisp,
\* or the exception raised on the way
RECURSIVE rmf_loop(_, _, _, _, _, _, _, _)
rmf_loop(arfs, livetimes, rmfs, lows, highs, i, aefft, aefftedisp) ==
    IF i > Len(rmfs) THEN Ok(<<aefft, aefftedisp>>)
    ELSE IF i > Len(arfs) \/ i > Len(livetimes) THEN Raise("IndexError")
    ELSE LET aefft_current == Scale(aeff_data(arfs[i]), livetimes[i])
             sum == iadd(aefft, aefft_current)
         IN  IF sum.raised # "" THEN sum
             ELSE IF i > Len(lows) \/ i > Len(highs) THEN Raise("IndexError")
             ELSE LET edisp == edisp_data(rmfs[i], lows[i], highs[i])
                      prod == mul_rows(transpose(edisp), aefft_current)
                  IN  IF prod.raised # "" THEN prod
                      ELSE LET sum2 == iadd2(aefftedisp, prod.val)
                           IN  IF sum2.raised # "" THEN sum2
                               ELSE rmf_loop(arfs, livetimes, rmfs, lows, highs,
                                             i + 1, sum.val, sum2.val)

\* StackedEdisp storing the reco x true array as it is
StackedEdispUntransposed(rmf0, stacked) ==
    EnergyDispersion(rmf0.e_true, rmf0.e_reco, stacked)

\* StackedEdisp with the two axes exchanged
StackedEdispSwappedAxes(rmf0, stacked) ==
    EnergyDispersion(rmf0.e_reco, rmf0.e_true, transpose(stacked))

\* lines 104-106: the stored object, its data transposed back to true x reco
StackedEdisp(rmf0, stacked) ==
    EnergyDispersion(rmf0.e_true, rmf0.e_reco, transpose(stacked))

\* mean_rmf's body: the exception it raises, or the matrix it stores
MeanRmf(arfs, livetimes, rmfs, lows, highs) ==
    IF Len(rmfs) = 0 THEN Raise("IndexError")
    ELSE LET reco_bins == nbins(rmfs[1].e_reco)
             true_bins == nbins(rmfs[1].e_true)
             run == rmf_loop(arfs, livetimes, rmfs, lows, highs, 1,
                             zeros(true_bins), zeros2(reco_bins, true_bins))
         IN  IF run.raised # "" THEN run
             ELSE Ok(StackedEdisp(rmfs[1], div_rows(run.val[2], run.val[1])))

\* ----------------------------------------------------------------- inputs
\* the effective-area curves of t bins the observations are drawn from:
\* 10,20,..  30,40,..  a curve with NaN in its last bin, one with 0 in its
\* first bin, and a negative one
ArfCurves(t) ==
    { [l \in 1..t |-> F(10 * l)],
      [l \in 1..t |-> F(10 * l + 20)],
      [l \in 1..t |-> IF l = t THEN NaN ELSE F(10 * l)],
      [l \in 1..t |-> IF l = 1 THEN Zero ELSE F(10 * l)],
      [l \in 1..t |-> F(-10 * l)] }

\* the positive livetimes
Livetimes == {F(1), F(3)}

\* two dispersion matrices (t true bins x r reco bins): one with pairwise
\* different entries, one diagonal
PdfFull(t, r) == [l \in 1..t |-> [k \in 1..r |-> F(k + r * (l - 1))]]

PdfDiag(t, r) ==
    [l \in 1..t |-> [k \in 1..r |-> IF k = ((l - 1) % r) + 1 THEN F(1) ELSE Zero]]

\* the responses for t x r bins: the first matrix with thresholds over the
\* whole reco range, the diagonal one with the first reco bin below the low
\* threshold
Responses(t, r) == { <<PdfFull(t, r), 0, r>>, <<PdfDiag(t, r), 1, r>> }

\* one observation: its arf, livetime, rmf and thresholds
Observation(t, r, curve, livetime, resp) ==
    [arf |-> EffectiveAreaTable(Edges(t), curve),
     livetime |-> livetime,
     rmf |-> EnergyDispersion(Edges(t), Edges(r), resp[1]),
     lo |-> resp[2],
     hi |-> resp[3]]

\* the observations of t true and r reco bins: every combination of curve,
\* positive livetime and response, and two observations of livetime 0 (the
\* first curve and the one with a NaN): with a weight of 0 in every bin,
\* the curve and the response of such an observation add nothing
ObservationsOf(t, r) ==
    { Observation(t, r, c, lt, rs) :
        c \in ArfCurves(t), lt \in Livetimes, rs \in Responses(t, r) }
    \cup { Observation(t, r, c, Zero, <<PdfFull(t, r), 0, r>>) :
             c \in { [l \in 1..t |-> F(10 * l)],
                     [l \in 1..t |-> IF l = t THEN NaN ELSE F(10 * l)] } }

\* one observation of t x r bins
PlainObservation(t, r) ==
    Observation(t, r, [l \in 1..t |-> F(10 * l)], F(1), <<PdfFull(t, r), 0, r>>)

\* the observations a stacker is built from: all those of the largest
\* binning, and one for each binning with fewer true or fewer reco bins
Observations ==
    ObservationsOf(MaxTrue, MaxReco)
    \cup { PlainObservation(t, MaxReco) : t \in 1..(MaxTrue - 1) }
    \cup { PlainObservation(MaxTrue, r) : r \in 1..(MaxReco - 1) }

\* ------------------------------------------------------------------ state
VARIABLES
    list_arf,            \* self.list_arf
    list_livetime,       \* self.list_livetime
    list_rmf,            \* self.list_rmf
    list_low_threshold,  \* self.list_low_threshold
    list_high_threshold, \* self.list_high_threshold
    stacked_aeff,        \* self.stacked_aeff: <<>> (None) or <<table>>
    stacked_edisp,       \* self.stacked_edisp: <<>> (None) or <<matrix>>
    called,              \* the method called last
    raised               \* the exception it raised, "" for none

vars == <<list_arf, list_livetime, list_rmf, list_low_threshold,
          list_high_threshold, stacked_aeff, stacked_edisp, called, raised>>

inputs == <<list_arf, list_livetime, list_rmf, list_low_threshold,
            list_high_threshold>>

None == <<>>

\* IRFStacker.__init__ on the parallel lists of n observations
Init ==
    \E n \in 0..MaxObs :
        \E obs \in [1..n -> Observations] :
            /\ list_arf = [j \in 1..n |-> obs[j].arf]
            /\ list_livetime = [j \in 1..n |-> obs[j].livetime]
            /\ list_rmf = [j \in 1..n |-> obs[j].rmf]
            /\ list_low_threshold = [j \in 1..n |-> obs[j].lo]
            /\ list_high_threshold = [j \in 1..n |-> obs[j].hi]
            /\ stacked_aeff = None
            /\ stacked_edisp = None
            /\ called = "__init__"
            /\ raised = ""

\* stack_aeff filling the NaN of the input curves in place
stack_aeff_filling_inputs ==
    \E r \in {StackAeff(list_arf, list_livetime)} :
        /\ called' = "stack_aeff"
        /\ raised' = r.raised
        /\ stacked_aeff' = IF r.raised = "" THEN <<r.val>> ELSE stacked_aeff
        /\ list_arf' = [j \in 1..Len(list_arf) |->
                           EffectiveAreaTable(list_arf[j].energy, aeff_data(list_arf[j]))]
        /\ UNCHANGED <<list_livetime, list_rmf, list_low_threshold,
                       list_high_threshold, stacked_edisp>>

\* IRFStacker.stack_aeff()
stack_aeff ==
    \E r \in {StackAeff(list_arf, list_livetime)} :
        /\ called' = "stack_aeff"
        /\ raised' = r.raised
        /\ stacked_aeff' = IF r.raised = "" THEN <<r.val>> ELSE stacked_aeff
        /\ UNCHANGED <<inputs, stacked_edisp>>

\* mean_rmf storing its zero-initialised accumulator before the loop
mean_rmf_storing_first ==
    \E r \in {MeanRmf(list_arf, list_livetime, list_rmf,
                      list_low_threshold, list_high_threshold)} :
        /\ called' = "mean_rmf"
        /\ raised' = r.raised
        /\ stacked_edisp' =
               IF r.raised = "" THEN <<r.val>>
               ELSE IF Len(list_rmf) = 0 THEN stacked_edisp
               ELSE <<StackedEdisp(list_rmf[1],
                                   zeros2(nbins(list_rmf[1].e_reco),
                                          nbins(list_rmf[1].e_true)))>>
        /\ UNCHANGED <<inputs, stacked_aeff>>

\* IRFStacker.mean_rmf()
mean_rmf ==
    \E r \in {MeanRmf(list_arf, list_livetime, list_rmf,
                      list_low_threshold, list_high_threshold)} :
        /\ called' = "mean_rmf"
        /\ raised' = r.raised
        /\ stacked_edisp' = IF r.raised = "" THEN <<r.val>> ELSE stacked_edisp
        /\ UNCHANGED <<inputs, stacked_aeff>>

Next == stack_aeff \/ mean_rmf

Spec == Init /\ [][Next]_vars

\* ------------------------------------------------- the stacking formulas
\* The docstring's formulas over the constructed lists, in integers (the
\* input values are whole numbers), computed apart from the code's arrays.
RECURSIVE SumTo(_, _)
SumTo(f, n) == IF n = 0 THEN 0 ELSE SumTo(f, n - 1) + f[n]

NObs == Len(list_arf)

AreaAt(j, l) == list_arf[j].data[l]

\* t_j
LivetimeOf(j) == list_livetime[j][2]

\* aeff_jl * t_j, a NaN area counted as 0
WeightOf(j, l) == (IF IsNaN(AreaAt(j, l)) THEN 0 ELSE AreaAt(j, l)[2]) * LivetimeOf(j)

\* sum_j aeff_jl * t_j
WeightSum(l) == SumTo([j \in 1..NObs |-> WeightOf(j, l)], NObs)

\* sum_j aeff_jl * t_j over the observations whose area at l is a number
WeightSumOfNumbers(l) ==
    SumTo([j \in 1..NObs |->
              IF IsNaN(AreaAt(j, l)) THEN 0 ELSE AreaAt(j, l)[2] * LivetimeOf(j)], NObs)

\* sum_j t_j
LivetimeSum == SumTo([j \in 1..NObs |-> LivetimeOf(j)], NObs)

\* epsilon_jk
Epsilon(j, k) ==
    IF /\ list_low_threshold[j] <= list_rmf[j].e_reco[k]
       /\ list_rmf[j].e_reco[k + 1] <= list_high_threshold[j]
    THEN 1 ELSE 0

\* sum_j edisp_jkl * aeff_jl * t_j * epsilon_jk
Numerator(k, l) ==
    SumTo([j \in 1..NObs |->
              list_rmf[j].data[l][k][2] * WeightOf(j, l) * Epsilon(j, k)], NObs)

\* sum_j edisp_jkl * aeff_jl * t_j * epsilon_jk over the observations whose
\* area at l is a number
NumeratorOfNumbers(k, l) ==
    SumTo([j \in 1..NObs |->
              IF IsNaN(AreaAt(j, l)) THEN 0
              ELSE list_rmf[j].data[l][k][2] * AreaAt(j, l)[2] * LivetimeOf(j)
                       * Epsilon(j, k)], NObs)

\* the float x is the ratio n / d
IsRatio(x, n, d) == IsFin(x) /\ x[2] * d = n * x[3]

\* every curve has the binning of the first
SameArfBins == \A j \in 1..NObs : list_arf[j].energy = list_arf[1].energy

\* every curve and matrix has the binning of the first matrix
SameBinning ==
    \A j \in 1..NObs :
        /\ list_arf[j].energy = list_rmf[1].e_true
        /\ list_rmf[j].e_true = list_rmf[1].e_true
        /\ list_rmf[j].e_reco = list_rmf[1].e_reco

TrueBins == 1..nbins(list_arf[1].energy)

RecoBins == 1..nbins(list_rmf[1].e_reco)

SomeAreaIsNaN == \E j \in 1..NObs : \E l \in 1..Len(list_arf[j].data) : IsNaN(AreaAt(j, l))

AllLivetimesZero == \A j \in 1..NObs : list_livetime[j] = Zero

\* the thresholds of observation j cover its whole reco range
FullRange(j) == \A k \in 1..nbins(list_rmf[j].e_reco) : Epsilon(j, k) = 1

\* the spec's concrete scenario
IsExample ==
    /\ NObs = 2
    /\ list_arf[1].data = <<F(10), F(20)>>
    /\ list_arf[2].data = <<F(30), F(40)>>
    /\ list_livetime = <<F(1), F(3)>>

\* the stack_aeff part of C5
C5_AreaHalf ==
    (stacked_aeff # None /\ SameArfBins /\ LivetimeSum > 0) =>
        \A l \in TrueBins :
            /\ ~IsNaN(stacked_aeff[1].data[l])
            /\ IsRatio(stacked_aeff[1].data[l], WeightSumOfNumbers(l), LivetimeSum)

\* the mean_rmf part of C5
C5_DispersionHalf ==
    (stacked_edisp # None /\ SameBinning) =>
        \A l \in TrueBins : \A k \in RecoBins :
            /\ ~IsNaN(stacked_edisp[1].data[l][k])
            /\ WeightSumOfNumbers(l) # 0 =>
                   IsRatio(stacked_edisp[1].data[l][k],
                           NumeratorOfNumbers(k, l), WeightSumOfNumbers(l))
            /\ (\A j \in 1..NObs : IsNaN(AreaAt(j, l))) =>
                   stacked_edisp[1].data[l][k] = Zero

\* ----------------------------------------------------------------- claims
\* C1: for curves of the same N bins and a positive total livetime,
\* stack_aeff stores, for every bin l, (sum_j area_j[l] * livetime_j) /
\* (sum_j livetime_j); areas [10,20] and [30,40] with livetimes [1,3] give
\* [25,35].
C1_WeightedMeanArea ==
    (stacked_aeff # None /\ SameArfBins /\ LivetimeSum > 0) =>
        /\ Len(stacked_aeff[1].data) = nbins(list_arf[1].energy)
        /\ \A l \in TrueBins :
               IsRatio(stacked_aeff[1].data[l], WeightSum(l), LivetimeSum)
        /\ IsExample => stacked_aeff[1].data = <<F(25), F(35)>>

C1_Witness ==
    /\ IsExample
    /\ stacked_aeff # None
    /\ stacked_aeff[1].data = <<F(25), F(35)>>

\* C2: for inputs of identical binning, mean_rmf stores numerator[k,l] /
\* denominator[l] at every (k,l) whose denominator is not 0, the numerator
\* the sum of dispersion * weight over the observations whose safe range
\* holds bin k, the denominator the sum of the weights of all observations.
C2_WeightedMeanDispersion ==
    (stacked_edisp # None /\ SameBinning) =>
        \A l \in TrueBins : \A k \in RecoBins :
            WeightSum(l) # 0 =>
                IsRatio(stacked_edisp[1].data[l][k], Numerator(k, l), WeightSum(l))

\* two observations, one of which has a bin outside its safe range, and a
\* denominator that is not 0
C2_Witness ==
    /\ stacked_edisp # None
    /\ SameBinning
    /\ NObs = 2
    /\ \E j \in 1..NObs : \E k \in RecoBins : Epsilon(j, k) = 0
    /\ \E l \in TrueBins : \E k \in RecoBins :
           /\ WeightSum(l) # 0
           /\ Numerator(k, l) # 0
           /\ Numerator(k, l) # WeightSum(l)

\* C3: in mean_rmf, a true bin whose denominator is 0 holds exactly 0 at
\* every reco bin, also when areas of mixed sign cancel.
C3_ZeroDenominatorGivesZero ==
    (stacked_edisp # None /\ SameBinning) =>
        \A l \in TrueBins :
            WeightSum(l) = 0 =>
                \A k \in RecoBins : stacked_edisp[1].data[l][k] = Zero

\* C4 as stated: one observation with a positive livetime and thresholds
\* over the full reco range is returned unchanged, whatever its curve.
C4_SingleObservationUnchanged ==
    (NObs = 1 /\ LivetimeSum > 0 /\ FullRange(1)) =>
        /\ stacked_aeff # None => stacked_aeff[1].data = list_arf[1].data
        /\ stacked_edisp # None => stacked_edisp[1].data = list_rmf[1].data

\* C4 amended: the area is returned unchanged where it is a number and as 0
\* where it is NaN; the dispersion is returned unchanged in the true bins
\* whose area is a number other than 0, and as 0 in the others.
C4_SingleObservationWhereAreaCounts ==
    (NObs = 1 /\ LivetimeSum > 0 /\ FullRange(1)) =>
        /\ stacked_aeff # None =>
               /\ stacked_aeff[1].energy = list_arf[1].energy
               /\ \A l \in TrueBins :
                      stacked_aeff[1].data[l] =
                          IF IsNaN(AreaAt(1, l)) THEN Zero ELSE AreaAt(1, l)
        /\ stacked_edisp # None =>
               /\ stacked_edisp[1].e_true = list_rmf[1].e_true
               /\ stacked_edisp[1].e_reco = list_rmf[1].e_reco
               /\ Len(stacked_edisp[1].data) = Len(list_rmf[1].data)
               /\ \A l \in TrueBins :
                      /\ Len(stacked_edisp[1].data[l]) = Len(list_rmf[1].data[l])
                      /\ \A k \in RecoBins :
                             stacked_edisp[1].data[l][k] =
                                 IF IsNaN(AreaAt(1, l)) \/ AreaAt(1, l) = Zero
                                 THEN Zero ELSE list_rmf[1].data[l][k]

\* one observation, both results stored, some bin with an area that counts
\* and a dispersion that is not 0
C4_Witness ==
    /\ NObs = 1 /\ LivetimeSum > 0 /\ FullRange(1)
    /\ stacked_aeff # None
    /\ stacked_edisp # None
    /\ \E l \in TrueBins : \E k \in RecoBins :
           /\ ~IsNaN(AreaAt(1, l)) /\ AreaAt(1, l) # Zero
           /\ stacked_edisp[1].data[l][k] # Zero
    /\ SomeAreaIsNaN

\* C5: a NaN area counts as 0 in the weighted sums of stack_aeff and of
\* mean_rmf while its observation's livetime still counts in the total:
\* the stacked area at l is the sum of area * livetime over the observations
\* whose area at l is a number, divided by the total livetime of all, and
\* is never NaN for a positive total livetime; the stacked dispersion at
\* (k,l) is the masked sum of dispersion * area * livetime over the same
\* observations divided by their sum of area * livetime (where that is not
\* 0), and 0 where every area at l is NaN.
C5_NaNAreaCountsAsZero ==
    SomeAreaIsNaN =>
        /\ C5_AreaHalf
        /\ C5_DispersionHalf

\* two observations of one binning and a true bin l where the first area is
\* NaN (with a positive livetime) and the second a number of non-zero
\* weight: both results are stored, the area at l is not 0 and the
\* dispersion at l is not 0 at some reco bin
C5_Witness ==
    /\ NObs = 2
    /\ SameBinning
    /\ LivetimeSum > 0
    /\ stacked_aeff # None
    /\ stacked_edisp # None
    /\ \E l \in TrueBins :
           /\ IsNaN(AreaAt(1, l))
           /\ LivetimeOf(1) > 0
           /\ ~IsNaN(AreaAt(2, l))
           /\ WeightOf(2, l) # 0
           /\ stacked_aeff[1].data[l] # Zero
           /\ \E k \in RecoBins :
                  /\ NumeratorOfNumbers(k, l) # 0
                  /\ stacked_edisp[1].data[l][k] # Zero

\* C6: stack_aeff raises when two curves differ in their bin counts, and so
\* does mean_rmf when the binnings differ; nothing is stored then.
C6_ShapeMismatchRaises ==
    /\ (called = "stack_aeff" /\ ~SameArfBins) =>
           (raised = "ValueError" /\ stacked_aeff = None)
    /\ (called = "mean_rmf" /\ ~SameBinning) =>
           (raised = "ValueError" /\ stacked_edisp = None)

\* C7: stack_aeff raises when every livetime is 0, and stores nothing.
C7_ZeroLivetimeRaises ==
    (called = "stack_aeff" /\ NObs > 0 /\ AllLivetimesZero) =>
        (raised # "" /\ stacked_aeff = None)

\* C8: a call that raises leaves stacked_aeff and stacked_edisp as they
\* were, and a result that is written is a full one: stored by a call that
\* did not raise, with a value for every bin of the first input.
C8_NoPartialResult ==
    [][/\ raised' # "" =>
              (stacked_aeff' = stacked_aeff /\ stacked_edisp' = stacked_edisp)
       /\ stacked_aeff' # stacked_aeff =>
              /\ raised' = ""
              /\ Len(stacked_aeff'[1].data) = nbins(list_arf[1].energy)
       /\ stacked_edisp' # stacked_edisp =>
              /\ raised' = ""
              /\ Len(stacked_edisp'[1].data) = nbins(list_rmf[1].e_true)
              /\ \A l \in 1..Len(stacked_edisp'[1].data) :
                     Len(stacked_edisp'[1].data[l]) = nbins(list_rmf[1].e_reco)
      ]_vars

\* a call has raised after the other one stored its result
C8_Witness == raised # "" /\ (stacked_aeff # None \/ stacked_edisp # None)

\* C9: for inputs of one binning, the stored area has the inputs' true
\* axis and the stored dispersion their true and reco axes, with one value
\* per bin, whatever the thresholds.
C9_ResultsKeepBinning ==
    /\ (stacked_aeff # None /\ SameArfBins) =>
           /\ \A j \in 1..NObs : stacked_aeff[1].energy = list_arf[j].energy
           /\ Len(stacked_aeff[1].data) = nbins(stacked_aeff[1].energy)
    /\ (stacked_edisp # None /\ SameBinning) =>
           /\ \A j \in 1..NObs :
                  /\ stacked_edisp[1].e_true = list_rmf[j].e_true
                  /\ stacked_edisp[1].e_reco = list_rmf[j].e_reco
           /\ Len(stacked_edisp[1].data) = nbins(stacked_edisp[1].e_true)
           /\ \A l \in 1..Len(stacked_edisp[1].data) :
                  Len(stacked_edisp[1].data[l]) = nbins(stacked_edisp[1].e_reco)

\* both results stored for inputs of one binning, with a reco bin outside
\* the safe range of some observation
C9_Witness ==
    /\ stacked_aeff # None
    /\ stacked_edisp # None
    /\ SameBinning
    /\ \E j \in 1..NObs : ~FullRange(j)

\* C10: no call changes the input lists; stack_aeff writes stacked_aeff
\* only and mean_rmf stacked_edisp only; a call that completes stores what
\* the operation yields on the constructed lists, whatever was called before.
C10_CallsCarryNoState ==
    [][/\ inputs' = inputs
       /\ called' = "stack_aeff" => stacked_edisp' = stacked_edisp
       /\ called' = "mean_rmf" => stacked_aeff' = stacked_aeff
       /\ (called' = "stack_aeff" /\ raised' = "") =>
              stacked_aeff' = <<StackAeff(list_arf, list_livetime).val>>
       /\ (called' = "mean_rmf" /\ raised' = "") =>
              stacked_edisp' = <<MeanRmf(list_arf, list_livetime, list_rmf,
                                         list_low_threshold,
                                         list_high_threshold).val>>
       /\ stacked_aeff' # stacked_aeff => (called' = "stack_aeff" /\ raised' = "")
       /\ stacked_edisp' # stacked_edisp => (called' = "mean_rmf" /\ raised' = "")
      ]_vars

\* stack_aeff has completed after mean_rmf did
C10_Witness ==
    /\ called = "stack_aeff"
    /\ raised = ""
    /\ stacked_aeff # None
    /\ stacked_edisp # None

====
